---- MODULE Spec2Model ----
(***************************************************************************)
(* Elementwise arithmetic of float3x4 (src/simd/types/type_float3x4.rs):   *)
(* three float4 rows, twelve operators (+, -, *, / for matrix-matrix,      *)
(* matrix-scalar and scalar-matrix operands).                              *)
(*                                                                         *)
(* f32 is modelled as a scaled-down IEEE-754 binary format: signed zeros,  *)
(* the finite magnitudes 0..MaxMag (unit spacing, round to nearest, ties   *)
(* to even), overflow to the infinities, and NaNs that carry a payload.    *)
(***************************************************************************)
EXTENDS Integers, Sequences, FiniteSets, TLC

\* ------------------------------------------------------------ bounds
\* Largest finite magnitude of the scaled-down f32 format.
MaxMag == 10
\* NaN payloads are 0 (the default NaN of an invalid operation) .. MaxPayload.
MaxPayload == 1
\* Threads computing at the same time, each on values of its own.
NumThreads == 2

\* ------------------------------------------------------------ shape
\* float3x4(pub float4, pub float4, pub float4): three rows ...
Rows == 3
\* ... of float4, four lanes each.
Lanes == 4

RowIdx == 1..Rows
LaneIdx == 1..Lanes

VARIABLES lhs, rhs, res, op, nanRule, threads

vars == <<lhs, rhs, res, op, nanRule, threads>>

\* ------------------------------------------------------------ f32
Num(n, m) == [kind |-> "num", neg |-> n, mag |-> m]
Inf(n) == [kind |-> "inf", neg |-> n, mag |-> 0]
NaN(p) == [kind |-> "nan", neg |-> FALSE, mag |-> p]

F32 ==
  {Num(n, m) : n \in BOOLEAN, m \in 0..MaxMag}
    \cup {Inf(n) : n \in BOOLEAN}
    \cup {NaN(p) : p \in 0..MaxPayload}

IsNaN(x) == x.kind = "nan"
IsInf(x) == x.kind = "inf"
IsZero(x) == x.kind = "num" /\ x.mag = 0
IsFinite(x) == x.kind = "num"

\* A small non-negative integer as an f32, and its negation.
Pos(m) == Num(FALSE, m)
Neg(m) == Num(TRUE, m)

\* IEEE-754 comparison ==: a NaN equals nothing, -0.0 equals +0.0.
FEq(x, y) ==
  /\ ~IsNaN(x)
  /\ ~IsNaN(y)
  /\ \/ x = y
     \/ IsZero(x) /\ IsZero(y)

\* The NaN an operation with a NaN operand returns.  IEEE-754 leaves the
\* choice open; nanRule is the choice the target makes.
PropagateNaN(x, y) ==
  IF nanRule = "canonical" THEN NaN(0)
  ELSE IF ~IsNaN(y) THEN x
  ELSE IF ~IsNaN(x) THEN y
  ELSE IF nanRule = "first" THEN x
  ELSE y

\* The signed integer a finite value stands for.
SignedVal(x) == IF x.neg THEN 0 - x.mag ELSE x.mag

\* An exact non-zero integer result, rounded into the format.
FromInt(v) ==
  LET m == IF v < 0 THEN 0 - v ELSE v
  IN IF m > MaxMag THEN Inf(v < 0) ELSE Num(v < 0, m)

FNegate(x) == IF IsNaN(x) THEN x ELSE [x EXCEPT !.neg = ~x.neg]

f32_add(x, y) ==
  IF IsNaN(x) \/ IsNaN(y) THEN PropagateNaN(x, y)
  ELSE IF IsInf(x) /\ IsInf(y) THEN (IF x.neg = y.neg THEN x ELSE NaN(0))
  ELSE IF IsInf(x) THEN x
  ELSE IF IsInf(y) THEN y
  ELSE LET v == SignedVal(x) + SignedVal(y)
       IN IF v = 0 THEN Num(x.neg /\ y.neg, 0) ELSE FromInt(v)

f32_sub(x, y) ==
  IF IsNaN(x) \/ IsNaN(y) THEN PropagateNaN(x, y)
  ELSE f32_add(x, FNegate(y))

f32_mul(x, y) ==
  IF IsNaN(x) \/ IsNaN(y) THEN PropagateNaN(x, y)
  ELSE IF (IsInf(x) /\ IsZero(y)) \/ (IsZero(x) /\ IsInf(y)) THEN NaN(0)
  ELSE IF IsInf(x) \/ IsInf(y) THEN Inf(x.neg # y.neg)
  ELSE IF x.mag * y.mag > MaxMag THEN Inf(x.neg # y.neg)
  ELSE Num(x.neg # y.neg, x.mag * y.mag)

\* p / q (q > 0) rounded to the nearest integer, ties to even.
RoundDiv(p, q) ==
  LET d == p \div q
      r == p % q
  IN IF 2 * r < q THEN d
     ELSE IF 2 * r > q THEN d + 1
     ELSE IF d % 2 = 0 THEN d
     ELSE d + 1

f32_div(x, y) ==
  IF IsNaN(x) \/ IsNaN(y) THEN PropagateNaN(x, y)
  ELSE IF IsInf(x) /\ IsInf(y) THEN NaN(0)
  ELSE IF IsInf(x) THEN Inf(x.neg # y.neg)
  ELSE IF IsInf(y) THEN Num(x.neg # y.neg, 0)
  ELSE IF IsZero(y) THEN (IF IsZero(x) THEN NaN(0) ELSE Inf(x.neg # y.neg))
  ELSE Num(x.neg # y.neg, RoundDiv(x.mag, y.mag))

\* ------------------------------------------------------------ float4
broadcast(x) == [l \in LaneIdx |-> x]

float4_add(u, v) == [l \in LaneIdx |-> f32_add(u[l], v[l])]
float4_sub(u, v) == [l \in LaneIdx |-> f32_sub(u[l], v[l])]
float4_mul(u, v) == [l \in LaneIdx |-> f32_mul(u[l], v[l])]
float4_div(u, v) == [l \in LaneIdx |-> f32_div(u[l], v[l])]

\* ------------------------------------------------------------ float3x4
\* float3x4(r0, r1, r2) is the tuple <<r0, r1, r2>>: self.0 is self[1].

\* Slip: self for other in the third row.
float3x4_add_self_twice(self, other) ==
  <<float4_add(self[1], other[1]), float4_add(self[2], other[2]), float4_add(self[3], self[3])>>

\* impl Add for float3x4
float3x4_add(self, other) ==
  <<float4_add(self[1], other[1]), float4_add(self[2], other[2]), float4_add(self[3], other[3])>>

\* impl Add<f32> for float3x4
float3x4_add_f32(self, other) ==
  LET other4 == broadcast(other)
  IN <<float4_add(self[1], other4), float4_add(self[2], other4), float4_add(self[3], other4)>>

\* impl Add<float3x4> for f32
f32_add_float3x4(self, other) ==
  LET scalar == broadcast(self)
  IN <<float4_add(scalar, other[1]), float4_add(scalar, other[2]), float4_add(scalar, other[3])>>

\* impl Sub for float3x4
float3x4_sub(self, other) ==
  <<float4_sub(self[1], other[1]), float4_sub(self[2], other[2]), float4_sub(self[3], other[3])>>

\* impl Sub<f32> for float3x4
float3x4_sub_f32(self, other) ==
  LET other4 == broadcast(other)
  IN <<float4_sub(self[1], other4), float4_sub(self[2], other4), float4_sub(self[3], other4)>>

\* Slip: the operands swapped, computing row - scalar.
f32_sub_float3x4_swapped(self, other) ==
  LET scalar == broadcast(self)
  IN <<float4_sub(other[1], scalar), float4_sub(other[2], scalar), float4_sub(other[3], scalar)>>

\* impl Sub<float3x4> for f32
f32_sub_float3x4(self, other) ==
  LET scalar == broadcast(self)
  IN <<float4_sub(scalar, other[1]), float4_sub(scalar, other[2]), float4_sub(scalar, other[3])>>

\* Slip: the second row multiplied by the other matrix's first row.
float3x4_mul_wrong_row(self, other) ==
  <<float4_mul(self[1], other[1]), float4_mul(self[2], other[1]), float4_mul(self[3], other[3])>>

\* impl Mul for float3x4
float3x4_mul(self, other) ==
  <<float4_mul(self[1], other[1]), float4_mul(self[2], other[2]), float4_mul(self[3], other[3])>>

\* Slip: the third row returned as it is, not multiplied.
float3x4_mul_f32_row_skipped(self, other) ==
  LET other4 == broadcast(other)
  IN <<float4_mul(self[1], other4), float4_mul(self[2], other4), self[3]>>

\* impl Mul<f32> for float3x4
float3x4_mul_f32(self, other) ==
  LET other4 == broadcast(other)
  IN <<float4_mul(self[1], other4), float4_mul(self[2], other4), float4_mul(self[3], other4)>>

\* Slip: the first row of the matrix used for every row.
f32_mul_float3x4_first_row(self, other) ==
  LET scalar == broadcast(self)
  IN <<float4_mul(scalar, other[1]), float4_mul(scalar, other[1]), float4_mul(scalar, other[1])>>

\* impl Mul<float3x4> for f32
f32_mul_float3x4(self, other) ==
  LET scalar == broadcast(self)
  IN <<float4_mul(scalar, other[1]), float4_mul(scalar, other[2]), float4_mul(scalar, other[3])>>

\* Slip: the second row divided by the divisor's first row.
float3x4_div_wrong_row(self, other) ==
  <<float4_div(self[1], other[1]), float4_div(self[2], other[1]), float4_div(self[3], other[3])>>

\* impl Div for float3x4
float3x4_div(self, other) ==
  <<float4_div(self[1], other[1]), float4_div(self[2], other[2]), float4_div(self[3], other[3])>>

\* Slip: the operands swapped, computing scalar / row.
float3x4_div_f32_swapped(self, other) ==
  LET other4 == broadcast(other)
  IN <<float4_div(other4, self[1]), float4_div(other4, self[2]), float4_div(other4, self[3])>>

\* Slip: a zero divisor refused (as integer division does), no value returned.
float3x4_div_f32_checked(self, other) ==
  LET other4 == broadcast(other)
  IN IF IsZero(other) THEN <<>>
     ELSE <<float4_div(self[1], other4), float4_div(self[2], other4), float4_div(self[3], other4)>>

\* impl Div<f32> for float3x4
float3x4_div_f32(self, other) ==
  LET other4 == broadcast(other)
  IN <<float4_div(self[1], other4), float4_div(self[2], other4), float4_div(self[3], other4)>>

\* impl Div<float3x4> for f32
f32_div_float3x4(self, other) ==
  LET scalar == broadcast(self)
  IN <<float4_div(scalar, other[1]), float4_div(scalar, other[2]), float4_div(scalar, other[3])>>

\* ------------------------------------------------------------ operands
\* The f32 values in a fixed order: +0, 1, .., MaxMag, -0, -1, .., -MaxMag,
\* +Inf, -Inf, NaN(0), .., NaN(MaxPayload).
NumVals == 2 * (MaxMag + 1) + 2 + (MaxPayload + 1)

Val(i) ==
  IF i <= MaxMag + 1 THEN Num(FALSE, i - 1)
  ELSE IF i <= 2 * (MaxMag + 1) THEN Num(TRUE, i - MaxMag - 2)
  ELSE IF i = 2 * (MaxMag + 1) + 1 THEN Inf(FALSE)
  ELSE IF i = 2 * (MaxMag + 1) + 2 THEN Inf(TRUE)
  ELSE NaN(i - 2 * (MaxMag + 1) - 3)

\* Lanes consecutive values starting at the i-th, wrapping around.
Window(i) == [l \in LaneIdx |-> Val(((i + l - 2) % NumVals) + 1)]

\* Twelve consecutive values, row-major.
Mat(i) == [r \in RowIdx |-> Window(i + Lanes * (r - 1))]

\* The matrices of the documented scenarios: every row [1, 1, 1, 1], and
\* every row [1.0, -1.0, 0.0, 2.0].
Ones == [r \in RowIdx |-> broadcast(Pos(1))]
DivRow == <<Pos(1), Neg(1), Pos(0), Pos(2)>>
DivMat == [r \in RowIdx |-> DivRow]

Matrices == {Mat(i) : i \in 1..NumVals} \cup {Ones, DivMat}
Scalars == F32

Mtx(m) == [ty |-> "float3x4", val |-> m]
Scl(x) == [ty |-> "f32", val |-> x]
IsMtx(v) == v.ty = "float3x4"
IsScl(v) == v.ty = "f32"

NanRules == {"first", "second", "canonical"}
OpNames == {"add", "sub", "mul", "div"}

\* ------------------------------------------------------------ state machine
\* lhs and rhs are the caller's operands; the operand types select the impl.
Init ==
  /\ \/ \E m \in Matrices, n \in Matrices : lhs = Mtx(m) /\ rhs = Mtx(n)
     \/ \E m \in Matrices, x \in Scalars : lhs = Mtx(m) /\ rhs = Scl(x)
     \/ \E x \in Scalars, m \in Matrices : lhs = Scl(x) /\ rhs = Mtx(m)
  /\ res = <<>>
  /\ op = "none"
  /\ nanRule \in NanRules
  /\ threads = <<>>

\* Slip: the result written through to the left operand (as += would).
ReturnInPlace(r, o) ==
  /\ res' = r
  /\ op' = o
  /\ lhs' = [lhs EXCEPT !.val = r]
  /\ UNCHANGED <<rhs, nanRule, threads>>

\* The operands are passed by value (float3x4 is Copy) and the result is a new
\* value: the caller's operands stay as they are.
Return(r, o) ==
  /\ res' = r
  /\ op' = o
  /\ UNCHANGED <<lhs, rhs, nanRule, threads>>

AddMM == IsMtx(lhs) /\ IsMtx(rhs) /\ Return(float3x4_add(lhs.val, rhs.val), "add")
AddMS == IsMtx(lhs) /\ IsScl(rhs) /\ Return(float3x4_add_f32(lhs.val, rhs.val), "add")
AddSM == IsScl(lhs) /\ IsMtx(rhs) /\ Return(f32_add_float3x4(lhs.val, rhs.val), "add")

SubMM == IsMtx(lhs) /\ IsMtx(rhs) /\ Return(float3x4_sub(lhs.val, rhs.val), "sub")
SubMS == IsMtx(lhs) /\ IsScl(rhs) /\ Return(float3x4_sub_f32(lhs.val, rhs.val), "sub")
SubSM == IsScl(lhs) /\ IsMtx(rhs) /\ Return(f32_sub_float3x4(lhs.val, rhs.val), "sub")

MulMM == IsMtx(lhs) /\ IsMtx(rhs) /\ Return(float3x4_mul(lhs.val, rhs.val), "mul")
MulMS == IsMtx(lhs) /\ IsScl(rhs) /\ Return(float3x4_mul_f32(lhs.val, rhs.val), "mul")
MulSM == IsScl(lhs) /\ IsMtx(rhs) /\ Return(f32_mul_float3x4(lhs.val, rhs.val), "mul")

DivMM == IsMtx(lhs) /\ IsMtx(rhs) /\ Return(float3x4_div(lhs.val, rhs.val), "div")
DivMS == IsMtx(lhs) /\ IsScl(rhs) /\ Return(float3x4_div_f32(lhs.val, rhs.val), "div")
DivSM == IsScl(lhs) /\ IsMtx(rhs) /\ Return(f32_div_float3x4(lhs.val, rhs.val), "div")

Next ==
  \/ AddMM
  \/ AddMS
  \/ AddSM
  \/ SubMM
  \/ SubMS
  \/ SubSM
  \/ MulMM
  \/ MulMS
  \/ MulSM
  \/ DivMM
  \/ DivMS
  \/ DivSM

Spec == Init /\ [][Next]_vars

\* ------------------------------------------------------------ properties
\* The lane operation an operator name stands for.
LaneOp(o, x, y) ==
  CASE o = "add" -> f32_add(x, y)
    [] o = "sub" -> f32_sub(x, y)
    [] o = "mul" -> f32_mul(x, y)
    [] o = "div" -> f32_div(x, y)

\* The row operation an operator name stands for.
RowOp(o, u, v) ==
  CASE o = "add" -> float4_add(u, v)
    [] o = "sub" -> float4_sub(u, v)
    [] o = "mul" -> float4_mul(u, v)
    [] o = "div" -> float4_div(u, v)

\* The impl the operand types select, as an operator.
Eval(o, l, r) ==
  CASE IsMtx(l) /\ IsMtx(r) ->
         (CASE o = "add" -> float3x4_add(l.val, r.val)
            [] o = "sub" -> float3x4_sub(l.val, r.val)
            [] o = "mul" -> float3x4_mul(l.val, r.val)
            [] o = "div" -> float3x4_div(l.val, r.val))
    [] IsMtx(l) /\ IsScl(r) ->
         (CASE o = "add" -> float3x4_add_f32(l.val, r.val)
            [] o = "sub" -> float3x4_sub_f32(l.val, r.val)
            [] o = "mul" -> float3x4_mul_f32(l.val, r.val)
            [] o = "div" -> float3x4_div_f32(l.val, r.val))
    [] IsScl(l) /\ IsMtx(r) ->
         (CASE o = "add" -> f32_add_float3x4(l.val, r.val)
            [] o = "sub" -> f32_sub_float3x4(l.val, r.val)
            [] o = "mul" -> f32_mul_float3x4(l.val, r.val)
            [] o = "div" -> f32_div_float3x4(l.val, r.val))

Acted == op # "none"
MatMat == Acted /\ IsMtx(lhs) /\ IsMtx(rhs)
MatScl == Acted /\ IsMtx(lhs) /\ IsScl(rhs)
SclMat == Acted /\ IsScl(lhs) /\ IsMtx(rhs)

\* A value of the float3x4 type: three rows of four f32 lanes.
WellFormed(m) ==
  /\ DOMAIN m = RowIdx
  /\ \A i \in RowIdx :
       /\ DOMAIN m[i] = LaneIdx
       /\ \A l \in LaneIdx : m[i][l] \in F32

\* Bit-for-bit equality of two lanes is =; this is equality up to the payload
\* of a NaN.
SameOrBothNaN(x, y) == x = y \/ (IsNaN(x) /\ IsNaN(y))

AllFinite(m) == \A i \in RowIdx, l \in LaneIdx : IsFinite(m[i][l])

\* C1: for each of +, -, *, / on two matrices, result row i is
\* A.row_i op B.row_i (A's row on the left), and the result has three rows.
C1_MatMatRowwise ==
  MatMat =>
    /\ DOMAIN res = RowIdx
    /\ \A i \in RowIdx : res[i] = RowOp(op, lhs.val[i], rhs.val[i])

\* A division of two matrices whose rows differ and where the operand order
\* shows in the first row.
C1_Witness ==
  /\ MatMat
  /\ op = "div"
  /\ lhs.val[1] # lhs.val[2]
  /\ rhs.val[1] # rhs.val[2]
  /\ res[1] # RowOp("div", rhs.val[1], lhs.val[1])
  /\ res[2] # RowOp("div", lhs.val[2], rhs.val[1])

\* C2: for each of +, -, *, / on a matrix and a scalar, every lane of result
\* row i is M.row_i's lane op s (one broadcast of s serves all three rows);
\* the matrix of rows [1,1,1,1] times 3 is [3,3,3,3] in every row.
C2_MatScalarBroadcast ==
  MatScl =>
    /\ DOMAIN res = RowIdx
    /\ \A i \in RowIdx : DOMAIN res[i] = LaneIdx
    /\ \A i \in RowIdx, l \in LaneIdx : res[i][l] = LaneOp(op, lhs.val[i][l], rhs.val)
    /\ (op = "mul" /\ lhs.val = Ones /\ rhs.val = Pos(3)) =>
         \A i \in RowIdx : res[i] = <<Pos(3), Pos(3), Pos(3), Pos(3)>>

\* The documented scenario: rows [1,1,1,1] times 3.
C2_Witness ==
  /\ MatScl
  /\ op = "mul"
  /\ lhs.val = Ones
  /\ rhs.val = Pos(3)
  /\ res[3] = <<Pos(3), Pos(3), Pos(3), Pos(3)>>

\* C3: for each of +, -, *, / on a scalar and a matrix, every lane of result
\* row i is s op M.row_i's lane, the scalar on the left; with row0 = [1,2,3,4]
\* and s = 10, (s - M).row0 = [9,8,7,6] and (M - s).row0 = [-9,-8,-7,-6].
C3_ScalarMatOrder ==
  /\ SclMat =>
       /\ DOMAIN res = RowIdx
       /\ \A i \in RowIdx : DOMAIN res[i] = LaneIdx
       /\ \A i \in RowIdx, l \in LaneIdx : res[i][l] = LaneOp(op, lhs.val, rhs.val[i][l])
  /\ (SclMat /\ op = "sub" /\ lhs.val = Pos(10)
        /\ rhs.val[1] = <<Pos(1), Pos(2), Pos(3), Pos(4)>>) =>
       res[1] = <<Pos(9), Pos(8), Pos(7), Pos(6)>>
  /\ (MatScl /\ op = "sub" /\ rhs.val = Pos(10)
        /\ lhs.val[1] = <<Pos(1), Pos(2), Pos(3), Pos(4)>>) =>
       res[1] = <<Neg(9), Neg(8), Neg(7), Neg(6)>>

\* The documented scenario: 10 - M with M.row0 = [1,2,3,4].
C3_Witness ==
  /\ SclMat
  /\ op = "sub"
  /\ lhs.val = Pos(10)
  /\ rhs.val[1] = <<Pos(1), Pos(2), Pos(3), Pos(4)>>
  /\ res[1] = <<Pos(9), Pos(8), Pos(7), Pos(6)>>
  /\ res[1] # RowOp("sub", rhs.val[1], broadcast(lhs.val))

\* C4 as stated: A + B = B + A and A * B = B * A in every row and lane,
\* bit for bit, for all matrices A and B.
C4_CommutesBitForBit ==
  (MatMat /\ op \in {"add", "mul"}) =>
    \A i \in RowIdx, l \in LaneIdx : res[i][l] = Eval(op, rhs, lhs)[i][l]

\* C4 amended: A + B and B + A (A * B and B * A) agree bit for bit in every
\* lane that is not a NaN, and a lane is a NaN in one exactly when it is a NaN
\* in the other; only the payload of a NaN may depend on the operand order.
C4_CommutesUpToNaNPayload ==
  (MatMat /\ op \in {"add", "mul"}) =>
    \A i \in RowIdx, l \in LaneIdx : SameOrBothNaN(res[i][l], Eval(op, rhs, lhs)[i][l])

\* A product of two different matrices with a lane where both hold a NaN of
\* different payloads, and a lane of the third row with a finite result.
C4_Witness ==
  /\ MatMat
  /\ op = "mul"
  /\ lhs.val # rhs.val
  /\ \E i \in RowIdx, l \in LaneIdx :
       /\ IsNaN(lhs.val[i][l])
       /\ IsNaN(rhs.val[i][l])
       /\ lhs.val[i][l] # rhs.val[i][l]
  /\ \E l \in LaneIdx : IsFinite(res[3][l]) /\ lhs.val[3][l] # rhs.val[3][l]

\* C5: for a matrix A with only finite entries, A + 0.0 == A, A - 0.0 == A,
\* A * 1.0 == A and A / 1.0 == A in every row and lane (== of IEEE-754).
C5_ScalarIdentities ==
  (/\ MatScl
   /\ AllFinite(lhs.val)
   /\ \/ op \in {"add", "sub"} /\ rhs.val = Pos(0)
      \/ op \in {"mul", "div"} /\ rhs.val = Pos(1)) =>
    \A i \in RowIdx, l \in LaneIdx : FEq(res[i][l], lhs.val[i][l])

\* A finite matrix with a -0.0 and a non-zero entry, divided by 1.0.
C5_Witness ==
  /\ MatScl
  /\ op = "div"
  /\ rhs.val = Pos(1)
  /\ AllFinite(lhs.val)
  /\ \E i \in RowIdx, l \in LaneIdx : lhs.val[i][l] = Neg(0)
  /\ \E i \in RowIdx, l \in LaneIdx : lhs.val[i][l].mag > 1

\* The lanes of a division: numerator, divisor and quotient lane (i, l).
Numer(i, l) == IF IsMtx(lhs) THEN lhs.val[i][l] ELSE lhs.val
Denom(i, l) == IF IsMtx(rhs) THEN rhs.val[i][l] ELSE rhs.val
IsPositive(x) == ~IsNaN(x) /\ ~IsZero(x) /\ ~x.neg
IsNegative(x) == ~IsNaN(x) /\ ~IsZero(x) /\ x.neg

\* Every operator returns a float3x4, whatever the operands.
Total == Acted => WellFormed(res)

\* The documented scenario: [1.0, -1.0, 0.0, 2.0] / 0.0.
DivRowByZero ==
  (MatScl /\ op = "div" /\ lhs.val[1] = DivRow /\ rhs.val = Pos(0)) =>
    /\ res[1][1] = Inf(FALSE)
    /\ res[1][2] = Inf(TRUE)
    /\ IsNaN(res[1][3])
    /\ res[1][4] = Inf(FALSE)

\* C6 as stated: every operator is total, and a division by a zero lane gives
\* +Inf for a positive numerator, -Inf for a negative one, NaN for a zero one.
C6_TotalDivByZero ==
  /\ Total
  /\ DivRowByZero
  /\ (Acted /\ op = "div") =>
       \A i \in RowIdx, l \in LaneIdx :
         IsZero(Denom(i, l)) =>
           /\ IsPositive(Numer(i, l)) => res[i][l] = Inf(FALSE)
           /\ IsNegative(Numer(i, l)) => res[i][l] = Inf(TRUE)
           /\ IsZero(Numer(i, l)) => IsNaN(res[i][l])

\* C6 amended: every operator is total; a division by a +0.0 lane gives +Inf
\* for a positive numerator and -Inf for a negative one, a division by a -0.0
\* lane gives -Inf for a positive numerator and +Inf for a negative one, and
\* a zero numerator over either zero gives NaN.
C6_TotalDivBySignedZero ==
  /\ Total
  /\ DivRowByZero
  /\ (Acted /\ op = "div") =>
       \A i \in RowIdx, l \in LaneIdx :
         IsZero(Denom(i, l)) =>
           /\ IsPositive(Numer(i, l)) => res[i][l] = Inf(Denom(i, l).neg)
           /\ IsNegative(Numer(i, l)) => res[i][l] = Inf(~Denom(i, l).neg)
           /\ IsZero(Numer(i, l)) => IsNaN(res[i][l])

\* The documented scenario, [1.0, -1.0, 0.0, 2.0] / 0.0, with its result.
C6_Witness ==
  /\ MatScl
  /\ op = "div"
  /\ lhs.val[1] = DivRow
  /\ rhs.val = Pos(0)
  /\ res[1] = <<Inf(FALSE), Inf(TRUE), NaN(0), Inf(FALSE)>>

\* C7: no operator changes an operand; a step changes only the result (and
\* the record of which operator ran).
C7_OperandsUnchanged ==
  [][lhs' = lhs /\ rhs' = rhs /\ nanRule' = nanRule]_vars

\* An operator has run on a matrix and returned something else than it.
C7_Witness ==
  /\ MatScl
  /\ op = "sub"
  /\ WellFormed(res)
  /\ res # lhs.val

\* C9 as stated: s + M equals M + s and s * M equals M * s in every row and
\* lane (equal bit for bit, or equal as IEEE-754 compares).
C9_ScalarSideEqual ==
  (SclMat /\ op \in {"add", "mul"}) =>
    \A i \in RowIdx, l \in LaneIdx :
      \/ res[i][l] = Eval(op, rhs, lhs)[i][l]
      \/ FEq(res[i][l], Eval(op, rhs, lhs)[i][l])

\* C9 amended: s + M and M + s (s * M and M * s) agree bit for bit in every
\* lane that is not a NaN, and a lane is a NaN in one exactly when it is a NaN
\* in the other.
C9_ScalarSideUpToNaNPayload ==
  (SclMat /\ op \in {"add", "mul"}) =>
    \A i \in RowIdx, l \in LaneIdx : SameOrBothNaN(res[i][l], Eval(op, rhs, lhs)[i][l])

\* s * M with a NaN scalar, a matrix holding another NaN, and rows that differ.
C9_Witness ==
  /\ SclMat
  /\ op = "mul"
  /\ IsNaN(lhs.val)
  /\ \E i \in RowIdx, l \in LaneIdx : IsNaN(rhs.val[i][l]) /\ rhs.val[i][l] # lhs.val
  /\ res[1] # res[2]

\* Matrix x with lane (i, l) replaced by v, and with row i replaced by u.
PatchLane(x, i, l, v) ==
  [r \in RowIdx |-> [c \in LaneIdx |-> IF r = i /\ c = l THEN v ELSE x[r][c]]]
PatchRow(x, i, u) == [r \in RowIdx |-> IF r = i THEN u ELSE x[r]]

\* Another run's operand: it agrees with operand v on lane (i, l), or on row
\* i, and holds x everywhere else; a scalar operand is the same in both runs.
AgreeOnLane(v, x, i, l) == IF IsMtx(v) THEN Mtx(PatchLane(x, i, l, v.val[i][l])) ELSE v
AgreeOnRow(v, x, i) == IF IsMtx(v) THEN Mtx(PatchRow(x, i, v.val[i])) ELSE v

\* What the other run holds outside the lane or row the runs agree on.
OtherRuns == {Mat(3), Mat(MaxMag + 5), Ones}

\* C10: row i lane l of a result depends only on row i lane l of the matrix
\* operands and on the scalar operand: a second run that agrees with this one
\* on that lane (on row i) and on the scalar gets the same result lane (row).
C10_LanesIndependent ==
  Acted =>
    \A x \in OtherRuns, y \in OtherRuns, i \in RowIdx :
      /\ Eval(op, AgreeOnRow(lhs, x, i), AgreeOnRow(rhs, y, i))[i] = res[i]
      /\ \A l \in LaneIdx :
           Eval(op, AgreeOnLane(lhs, x, i, l), AgreeOnLane(rhs, y, i, l))[i][l] = res[i][l]

\* Two runs of scalar * matrix that agree on row 2 only, and whose results
\* differ in the other two rows.
C10_Witness ==
  /\ SclMat
  /\ op = "mul"
  /\ \E x \in OtherRuns :
       LET other == Eval(op, lhs, AgreeOnRow(rhs, x, 2))
       IN /\ other[2] = res[2]
          /\ other[1] # res[1]
          /\ other[3] # res[3]

\* ------------------------------------------------------------ threads
\* Several threads, each applying one operator to operands of its own.  An
\* operator evaluates its three rows one after the other, and the threads'
\* row evaluations interleave freely.
Threads == 1..NumThreads

\* The operand pairs thread t may hold, different for every thread: two
\* matrices, or a matrix and a scalar (the scalar on the right in the threads
\* of odd number, on the left in those of even number).
OperandsOf(t) ==
  { <<Mtx(Mat(2 * t)), Mtx(Mat(2 * t + MaxMag))>>,
    IF t % 2 = 1 THEN <<Mtx(Mat(2 * t)), Scl(Val(t + 1))>>
    ELSE <<Scl(Val(t + 1)), Mtx(Mat(2 * t + MaxMag))>> }

ThreadStart(t) ==
  {[lhs |-> p[1], rhs |-> p[2], op |-> "none", rows |-> <<>>] : p \in OperandsOf(t)}

InitThreads ==
  /\ lhs = Mtx(Ones)
  /\ rhs = Mtx(Ones)
  /\ res = <<>>
  /\ op = "none"
  /\ nanRule \in NanRules
  /\ threads \in [Threads -> UNION {ThreadStart(t) : t \in Threads}]
  /\ \A t \in Threads : threads[t] \in ThreadStart(t)

\* Slip: the left operand kept in one place per type, which all threads
\* holding a left operand of that type read.
ThreadLhsShared(t) ==
  IF threads[1].lhs.ty = threads[t].lhs.ty THEN threads[1].lhs ELSE threads[t].lhs

\* self and other are passed by value: a thread reads copies of its own.
ThreadLhs(t) == threads[t].lhs
ThreadRhs(t) == threads[t].rhs

\* Thread t calls an operator.
Call(t) ==
  /\ threads[t].op = "none"
  /\ \E o \in OpNames : threads' = [threads EXCEPT ![t].op = o]
  /\ UNCHANGED <<lhs, rhs, res, op, nanRule>>

\* Thread t evaluates the next row of its result.
EvalRow(t) ==
  /\ threads[t].op # "none"
  /\ Len(threads[t].rows) < Rows
  /\ LET k == Len(threads[t].rows) + 1
         row == Eval(threads[t].op, ThreadLhs(t), ThreadRhs(t))[k]
     IN threads' = [threads EXCEPT ![t].rows = Append(@, [l \in LaneIdx |-> row[l]])]
  /\ UNCHANGED <<lhs, rhs, res, op, nanRule>>

NextThreads == \E t \in Threads : Call(t) \/ EvalRow(t)

SpecThreads == InitThreads /\ [][NextThreads]_vars

\* C8: under every interleaving each thread gets the rows it would get running
\* alone (the operator applied to its own operands), a step of one thread
\* leaves every other thread's operands and rows as they are, and no step
\* changes an operand.
C8_ThreadsIndependent ==
  [][\A t \in Threads :
       /\ threads'[t].lhs = threads[t].lhs
       /\ threads'[t].rhs = threads[t].rhs
       /\ \A k \in 1..Len(threads'[t].rows) :
            threads'[t].rows[k] = Eval(threads'[t].op, threads[t].lhs, threads[t].rhs)[k]
       /\ threads'[t] # threads[t] =>
            \A u \in Threads \ {t} : threads'[u] = threads[u]]_vars

\* Two threads in the middle of different operators at the same time, and a
\* state where both have finished with different results.
C8_Witness ==
  /\ Len(threads[1].rows) = Rows
  /\ Len(threads[2].rows) = Rows
  /\ threads[1].op = "sub"
  /\ threads[2].op = "div"
  /\ IsMtx(threads[1].lhs) /\ IsScl(threads[1].rhs)
  /\ IsScl(threads[2].lhs) /\ IsMtx(threads[2].rhs)
  /\ threads[1].rows # threads[2].rows

====
